---- MODULE Spec2Model ----
(***************************************************************************)
(* Model of the EPUB navigation engine of leedor (crate/src/epub.rs).      *)
(*                                                                         *)
(* A path or a reference is the sequence of its "/"-separated segments:    *)
(* "OEBPS/text/ch1.html" is <<"OEBPS", "text", "ch1.html">>, and the empty *)
(* string is <<>>.  A PathBuf keeps the segments as they were pushed (this *)
(* is what to_str and the zip lookup see), while PathBuf equality and      *)
(* PathBuf::pop work on its components, which skip every "." that is not   *)
(* the first segment.                                                      *)
(***************************************************************************)
EXTENDS Integers, Sequences, FiniteSets, TLC

\* ---------------------------------------------------------------- bounds
\* Largest spine index a caller passes to chapter (the longest spine of the
\* books below has 5 entries, so MaxIdx reaches past its end).
MaxIdx == 5

\* Longest cursor path explored: a link that fails to open still moves the
\* cursor, so repeated links into a sub-directory deepen it without limit.
MaxPathLen == 4

\* ------------------------------------------------------- std::path model
Last(s) == s[Len(s)]

Front(s) == SubSeq(s, 1, Len(s) - 1)

\* Drops the trailing "." segments that Components::trim_right skips (a "."
\* in first position is a CurDir component and stays).
RECURSIVE TrimRight(_)
TrimRight(p) ==
    IF Len(p) > 1 /\ Last(p) = "." THEN TrimRight(Front(p)) ELSE p

\* Mutant of Components: every segment is a component.
Components_keep_dots(p) == p

\* Path::components: every segment but the "." that are not first.
Components(p) ==
    SelectSeq([i \in 1..Len(p) |-> IF i > 1 /\ p[i] = "." THEN "" ELSE p[i]],
              LAMBDA s : s # "")

\* PathBuf == PathBuf compares components.
PathEq(a, b) == Components(a) = Components(b)

\* PathBuf::pop: truncates to the parent; a path with no component is left
\* as it is.
Pop(p) ==
    LET t == TrimRight(p)
    IN  IF t = <<>> THEN p ELSE TrimRight(Front(t))

\* PathBuf::push of one relative segment.
Push(p, seg) == Append(p, seg)

\* ------------------------------------------------------------ resolve_path
RECURSIVE Walk(_, _)
Walk(built_path, segments) ==
    IF segments = <<>> THEN built_path
    ELSE Walk(IF Head(segments) = ".." THEN Pop(built_path)
                                       ELSE Push(built_path, Head(segments)),
              Tail(segments))

\* Mutant of resolve_path: an empty reference is walked like any other.
resolve_path_no_early_return(path_str, relative_to) ==
    Walk(Pop(relative_to), Components(path_str))

resolve_path(path_str, relative_to) ==
    IF path_str = <<>> THEN relative_to
    ELSE Walk(Pop(relative_to), Components(path_str))

\* ------------------------------------------------- utils::parse_relative_url
\* An href is [segs |-> the "/"-separated segments of its path part,
\*             frag |-> its fragment, "" when it has none].
\* The href "//" is <<"", "">>: a scheme-relative reference with an empty
\* host, which Url::parse rejects for the https base (EmptyHost).
BadHref == [segs |-> <<"", "">>, frag |-> ""]

UrlParses(href) == href.segs # BadHref.segs

\* Percent-encoding of one path segment as Url::path reports it: a space
\* becomes %20 (the only encodable character of the segments modelled).
PercentEncode(seg) == IF seg = "fn 2.html" THEN "fn%202.html" ELSE seg

\* The URL parser resolves the path against the base path "/": a "."
\* segment is dropped, a ".." segment removes the segment before it and is
\* dropped when there is none, other segments are percent-encoded.
RECURSIVE UrlSegments(_, _)
UrlSegments(out, segs) ==
    IF segs = <<>> THEN out
    ELSE UrlSegments(
            CASE Head(segs) = "."  -> out
              [] Head(segs) = ".." -> (IF out = <<>> THEN out ELSE Front(out))
              [] OTHER             -> Append(out, PercentEncode(Head(segs))),
            Tail(segs))

\* &url.path()[1..]: the normalised path without its leading slash and
\* without the fragment.
UrlPath(href) == UrlSegments(<<>>, href.segs)

\* ------------------------------------------------------------- the books
\* A zip entry is [kind, bytes, elems]: kind "xml" parses as a document,
\* kind "bin" and "bad" do not; bytes identifies the entry's contents;
\* elems is the forest of the elements below the document's root, each
\* [name, has_attr, value, kids] where value is the raw text of the
\* attribute inline_resources looks at and kids the child elements.
Doc(b, es) == [kind |-> "xml", bytes |-> b, elems |-> es]

Bin(b) == [kind |-> "bin", bytes |-> b, elems |-> <<>>]

Bad(b) == [kind |-> "bad", bytes |-> b, elems |-> <<>>]

Elem(n, v) == [name |-> n, has_attr |-> TRUE, value |-> v, kids |-> <<>>]

\* An element with children.
Node(n, v, kids) == [name |-> n, has_attr |-> TRUE, value |-> v, kids |-> kids]

\* An img, image or link element without the attribute that is inlined.
Bare(n) == [name |-> n, has_attr |-> FALSE, value |-> <<>>, kids |-> <<>>]

Item(h, m) == [href |-> h, media_type |-> m]

Xhtml == "application/xhtml+xml"

\* A well-formed book: three chapters under OEBPS/text, two footnote
\* documents outside the spine, one image.
ZipPlain ==
    ( <<"OEBPS", "content.opf">>       :> Doc(1, <<>>)
   @@ <<"OEBPS", "toc.ncx">>           :> Doc(2, <<>>)
   @@ <<"OEBPS", "text", "ch1.html">>  :>
        Doc(3, << Elem("p", <<>>),
                  Node("div", <<>>,
                       << Node("p", <<>>, << Elem("img", <<"..", "img", "cover.png">>) >>),
                          Bare("img") >>),
                  Elem("image", <<"..", "img", "cover.png">>) >>)
   @@ <<"OEBPS", "text", "ch2.html">>  :> Doc(4, <<>>)
   @@ <<"OEBPS", "text", "ch3.html">>  :> Doc(5, << Elem("link", <<"style.css">>) >>)
   @@ <<"OEBPS", "text", "fn.html">>   :> Doc(6, <<>>)
   @@ <<"OEBPS", "text", "fn 2.html">> :> Doc(7, <<>>)
   @@ <<"OEBPS", "notes", "fn.html">>  :> Doc(8, <<>>)
   @@ <<"OEBPS", "text", "style.css">> :> Bin(9)
   @@ <<"OEBPS", "img", "cover.png">>  :> Bin(10) )

ManifestPlain ==
    ( "c1"    :> Item(<<"text", "ch1.html">>, Xhtml)
   @@ "c2"    :> Item(<<"text", "ch2.html">>, Xhtml)
   @@ "c3"    :> Item(<<"text", "ch3.html">>, Xhtml)
   @@ "fn"    :> Item(<<"text", "fn.html">>, Xhtml)
   @@ "css"   :> Item(<<"text", "style.css">>, "text/css")
   @@ "ncx"   :> Item(<<"toc.ncx">>, "application/x-dtbncx+xml")
   @@ "cover" :> Item(<<"img", "cover.png">>, "image/png") )

BookPlain ==
    [ zip |-> ZipPlain, opf |-> <<"OEBPS", "content.opf">>,
      manifest |-> ManifestPlain, spine |-> <<"c1", "c2", "c3">>, toc |-> "ncx" ]

\* The same archive with a spine that names c1 and c2 twice.
BookRepeat ==
    [ BookPlain EXCEPT !.spine = <<"c1", "c2", "c1", "c3", "c2">> ]

\* A book whose package document lies in OEBPS/pkg, so that its manifest
\* hrefs climb with "..".  OEBPS/pkg/text/ch1.html is a second copy of the
\* first chapter with other contents.
ZipClimb ==
    ( <<"OEBPS", "pkg", "content.opf">>        :> Doc(1, <<>>)
   @@ <<"OEBPS", "toc.ncx">>                   :> Doc(14, <<>>)
   @@ <<"OEBPS", "text", "ch1.html">>          :> Doc(3, <<>>)
   @@ <<"OEBPS", "pkg", "text", "ch1.html">>   :> Doc(11, <<>>)
   @@ <<"OEBPS", "text", "ch2.html">>          :> Doc(4, <<>>)
   @@ <<"OEBPS", "pkg", "ch3.html">>           :> Doc(5, <<>>) )

BookClimb ==
    [ zip |-> ZipClimb, opf |-> <<"OEBPS", "pkg", "content.opf">>,
      manifest |-> ( "c1"  :> Item(<<"..", "text", "ch1.html">>, Xhtml)
                  @@ "c2"  :> Item(<<"..", "text", "ch2.html">>, Xhtml)
                  @@ "c3"  :> Item(<<"ch3.html">>, Xhtml)
                  @@ "ncx" :> Item(<<"..", "toc.ncx">>, "application/x-dtbncx+xml") ),
      spine |-> <<"c1", "c2", "c3">>, toc |-> "ncx" ]

\* A damaged book: chapter 2 refers to an image that is in the archive
\* and then to one that is not, chapter 3 is not in the archive, chapter 4
\* is not XML.
ZipBroken ==
    ( <<"OEBPS", "content.opf">>       :> Doc(1, <<>>)
   @@ <<"OEBPS", "toc.ncx">>           :> Doc(13, <<>>)
   @@ <<"OEBPS", "text", "ch1.html">>  :> Doc(3, <<>>)
   @@ <<"OEBPS", "text", "ch2.html">>  :>
        Doc(4, << Elem("img", <<"pic.png">>),
                  Node("div", <<>>, << Elem("img", <<"gone.png">>) >>) >>)
   @@ <<"OEBPS", "text", "pic.png">>   :> Bin(15)
   @@ <<"OEBPS", "text", "ch4.html">>  :> Bad(12) )

BookBroken ==
    [ zip |-> ZipBroken, opf |-> <<"OEBPS", "content.opf">>,
      manifest |-> ( "c1"  :> Item(<<"text", "ch1.html">>, Xhtml)
                  @@ "c2"  :> Item(<<"text", "ch2.html">>, Xhtml)
                  @@ "c3"  :> Item(<<"text", "ch3.html">>, Xhtml)
                  @@ "c4"  :> Item(<<"text", "ch4.html">>, Xhtml)
                  @@ "ncx" :> Item(<<"toc.ncx">>, "application/x-dtbncx+xml") ),
      spine |-> <<"c1", "c2", "c3", "c4">>, toc |-> "ncx" ]

\* A book whose spine lists the package document itself.
BookSelf ==
    [ zip |-> ZipBroken, opf |-> <<"OEBPS", "content.opf">>,
      manifest |-> ( "opf" :> Item(<<"content.opf">>, "application/oebps-package+xml")
                  @@ "c1"  :> Item(<<"text", "ch1.html">>, Xhtml)
                  @@ "ncx" :> Item(<<"toc.ncx">>, "application/x-dtbncx+xml") ),
      spine |-> <<"c1", "opf">>, toc |-> "ncx" ]

Books == {BookPlain, BookRepeat, BookClimb, BookBroken, BookSelf}

\* The hrefs passed to chapter_by_link and chapter_by_toc_link.
Href(segs, frag) == [segs |-> segs, frag |-> frag]

NoSrc == Href(<<>>, "")

Hrefs ==
    { Href(<<"ch2.html">>, ""),
      Href(<<"fn.html">>, "n1"),
      Href(<<"fn 2.html">>, ""),
      Href(<<"..", "notes", "fn.html">>, "n1"),
      Href(<<"text", "ch2.html">>, "s1"),
      Href(<<"missing.html">>, ""),
      Href(<<>>, "top"),
      BadHref }

\* ------------------------------------------------------ the NCX documents
\* A child element of navMap: [name, has_content, has_src, src, has_label,
\* has_text, text, kids], kids being the navPoints nested in it.
NavPoint(text, src, kids) ==
    [name |-> "navPoint", has_content |-> TRUE, has_src |-> TRUE, src |-> src,
     has_label |-> TRUE, has_text |-> TRUE, text |-> text, kids |-> kids]

\* The docTitle-like children an NCX allows in navMap before its
\* navPoints: a navLabel or navInfo holding only a text element.
NavText(name, text) ==
    [name |-> name, has_content |-> FALSE, has_src |-> FALSE, src |-> NoSrc,
     has_label |-> FALSE, has_text |-> TRUE, text |-> text, kids |-> <<>>]

NoNcx == [has_navMap |-> FALSE, children |-> <<>>]

\* What an archive entry parses to as an NCX document, by its contents.
ParseNcx(bytes) ==
    CASE bytes = 2  ->
           [has_navMap |-> TRUE,
            children |-> << NavPoint(" Intro ", Href(<<"text", "ch1.html">>, ""),
                              << NavPoint("Inner", Href(<<"text", "ch1.html">>, "s2"), <<>>) >>),
                            NavPoint("Two", Href(<<"text", "ch2.html">>, "s1"), <<>>) >>]
      [] bytes = 13 ->
           [has_navMap |-> TRUE,
            children |-> << NavText("navLabel", "Contents"),
                            NavPoint("One", Href(<<"text", "ch1.html">>, ""), <<>>),
                            NavPoint("Two", Href(<<"text", "ch2.html">>, ""), <<>>) >>]
      [] bytes = 14 ->
           [has_navMap |-> TRUE,
            children |-> << NavPoint("One", Href(<<"text", "ch1.html">>, ""), <<>>),
                            [NavPoint("Two", NoSrc, <<>>) EXCEPT !.has_src = FALSE] >>]
      [] OTHER -> NoNcx

\* str::trim on the labels modelled.
Trim(text) == IF text = " Intro " THEN "Intro" ELSE text

\* -------------------------------------------------------------- the state
VARIABLES
    zip,            \* Epub.zip: archive path -> entry
    manifest,       \* Epub.manifest: item id -> [href, media_type]
    spine,          \* Epub.spine: sequence of idrefs
    opf_path,       \* Epub.opf_path
    toc_path,       \* Epub.toc_path
    current_path,   \* Epub.current_path
    last,           \* the last call: [op, idx, href, before, res]
    prev,           \* the call before it
    bytes,          \* container.xml and the package document of the archive
    loaded,         \* whether Epub::new has returned an engine
    pure,           \* the application of a pure function: [ref, anchor, out, done]
    screen          \* the page: [content, toc], the shadow root and the #toc list

vars == <<zip, manifest, spine, opf_path, toc_path, current_path, last, prev,
          bytes, loaded, pure, screen>>

\* Result values.  A failed call carries the error and no HTML.
NoHtml == [body |-> 0, attrs |-> <<>>]

Ok(html) == [ok |-> TRUE, err |-> "", html |-> html, toc |-> <<>>, count |-> 0]

Err(e) == [ok |-> FALSE, err |-> e, html |-> NoHtml, toc |-> <<>>, count |-> 0]

\* The results of toc and doc_count.
OkToc(t) == [Ok(NoHtml) EXCEPT !.toc = t]

OkCount(n) == [Ok(NoHtml) EXCEPT !.count = n]

\* A panic (an expect on None) ends the call without a result; it is
\* recorded as a failure of its own.
Panic == "panic"

\* The spec's names for the lookup failures raised as LeedorError.
IndexOutOfRange == "item_idx not in spine"

CurrentNotInSpine == "could not find current_path in spine"

NoHref == Href(<<>>, "")

NoCall == [op |-> "new", idx |-> 0, href |-> NoHref, before |-> <<>>, res |-> Ok(NoHtml)]

\* ---------------------------------------------------------- Epub::new
\* The fields of the engine returned for a book whose container and
\* package document have every required element.
EpubNew(book) ==
    [ current_path |-> book.opf,
      manifest     |-> book.manifest,
      opf_path     |-> book.opf,
      spine        |-> book.spine,
      toc_path     |-> resolve_path(book.manifest[book.toc].href, book.opf),
      zip          |-> book.zip ]

\* What Epub::new reads in the archive besides the entries of zip:
\* container.xml with its rootfile, and the package document with the
\* manifest items and the children of its spine element.
\*   opf:      the full-path attribute of the rootfile;
\*   rootfile: "ok", "no_attr" (no full-path attribute) or "none";
\*   items:    the item children of manifest, [id, href, media_type];
\*   children: the children of spine, [name, has_idref, idref];
\*   toc_attr: the toc attribute of spine, "" when it has none.
ItemRef(idref) == [name |-> "itemref", has_idref |-> TRUE, idref |-> idref]

RECURSIVE ItemSeq(_, _)
ItemSeq(m, ids) ==
    IF ids = {} THEN <<>>
    ELSE LET id == CHOOSE x \in ids : TRUE
         IN  <<[id |-> id, href |-> m[id].href, media_type |-> m[id].media_type]>>
             \o ItemSeq(m, ids \ {id})

BookBytes(book) ==
    [ rootfile |-> "ok", opf |-> book.opf,
      has_manifest |-> TRUE, items |-> ItemSeq(book.manifest, DOMAIN book.manifest),
      has_spine |-> TRUE,
      children |-> [i \in 1..Len(book.spine) |-> ItemRef(book.spine[i])],
      toc_attr |-> book.toc ]

\* The manifest collected from the items: a later item replaces an earlier
\* one with the same id.
ManifestOf(items) ==
    [id \in {items[i].id : i \in 1..Len(items)} |->
        LET k == CHOOSE i \in 1..Len(items) :
                    /\ items[i].id = id
                    /\ \A j \in 1..Len(items) : items[j].id = id => j <= i
        IN  Item(items[k].href, items[k].media_type)]

\* Mutant of SpineOf: every child of spine is taken, whatever its name.
SpineOf_any_child(children) == [i \in 1..Len(children) |-> children[i].idref]

\* The spine collected from the itemref children, in document order.
SpineOf(children) ==
    LET refs == SelectSeq(children, LAMBDA c : c.name = "itemref")
    IN  [i \in 1..Len(refs) |-> refs[i].idref]

\* The engine variables while there is no engine: only the archive.
NoEpub ==
    [ current_path |-> <<>>, manifest |-> <<>>, opf_path |-> <<>>,
      spine |-> <<>>, toc_path |-> <<>>, zip |-> zip ]

Loaded(e) == [ok |-> TRUE, err |-> "", epub |-> e]

NotLoaded(e) == [ok |-> FALSE, err |-> e, epub |-> NoEpub]

\* Mutant of new: a toc attribute that names no manifest item is taken
\* for the package document itself.
new_lax_toc(b) ==
    IF b.rootfile = "none" THEN NotLoaded("no rootfile in container.xml")
    ELSE IF b.rootfile = "no_attr" THEN NotLoaded("no full-path attribute in rootfile")
    ELSE IF b.opf \notin DOMAIN zip THEN NotLoaded("ZipError")
    ELSE IF zip[b.opf].kind # "xml" THEN NotLoaded("MinidomError")
    ELSE IF ~b.has_manifest THEN NotLoaded("manifest element missing in OPF")
    ELSE IF ~b.has_spine THEN NotLoaded("spine element missing in OPF")
    ELSE IF \E i \in 1..Len(b.children) :
                b.children[i].name = "itemref" /\ ~b.children[i].has_idref
    THEN NotLoaded(Panic)
    ELSE IF b.toc_attr = "" THEN NotLoaded("toc missing in spine")
    ELSE LET m == ManifestOf(b.items)
         IN  Loaded([ current_path |-> b.opf, manifest |-> m, opf_path |-> b.opf,
                      spine |-> SpineOf(b.children),
                      toc_path |-> IF b.toc_attr \in DOMAIN m
                                   THEN resolve_path(m[b.toc_attr].href, b.opf)
                                   ELSE b.opf,
                      zip |-> zip ])

\* Epub::new on an archive: the engine, or the failure that ends the
\* load.  The idrefs of the spine are not looked up in the manifest.
new(b) ==
    IF b.rootfile = "none" THEN NotLoaded("no rootfile in container.xml")
    ELSE IF b.rootfile = "no_attr" THEN NotLoaded("no full-path attribute in rootfile")
    ELSE IF b.opf \notin DOMAIN zip THEN NotLoaded("ZipError")
    ELSE IF zip[b.opf].kind # "xml" THEN NotLoaded("MinidomError")
    ELSE IF ~b.has_manifest THEN NotLoaded("manifest element missing in OPF")
    ELSE IF ~b.has_spine THEN NotLoaded("spine element missing in OPF")
    ELSE IF \E i \in 1..Len(b.children) :
                b.children[i].name = "itemref" /\ ~b.children[i].has_idref
    THEN NotLoaded(Panic)
    ELSE IF b.toc_attr = "" THEN NotLoaded("toc missing in spine")
    ELSE IF b.toc_attr \notin DOMAIN ManifestOf(b.items)
    THEN NotLoaded("toc in spine not defined in manifest")
    ELSE Loaded(EpubNew([ zip |-> zip, opf |-> b.opf,
                          manifest |-> ManifestOf(b.items),
                          spine |-> SpineOf(b.children), toc |-> b.toc_attr ]))

NoPure == [ref |-> <<>>, anchor |-> <<>>, out |-> <<>>, done |-> FALSE]

\* The page before anything is rendered: the welcome text, an empty list.
NoScreen == [content |-> NoHtml, toc |-> <<>>]

\* The engine variables hold the fields of e.
EngineIs(e) ==
    /\ zip = e.zip
    /\ manifest = e.manifest
    /\ spine = e.spine
    /\ opf_path = e.opf_path
    /\ toc_path = e.toc_path
    /\ current_path = e.current_path

Init ==
    \E book \in Books :
        /\ EngineIs(EpubNew(book))
        /\ last = NoCall
        /\ prev = NoCall
        /\ bytes = BookBytes(book)
        /\ loaded = TRUE
        /\ pure = NoPure
        /\ screen = NoScreen

\* ------------------------------------------------------ Epub::doc_count
doc_count == Len(spine)

\* ------------------------------------------------------ Epub::media_type
\* The media type of a manifest item whose resolved href is the path, None
\* ("" after unwrap_or_default) when there is none.
\* The engine held, as the record of its fields.
Engine ==
    [ zip |-> zip, manifest |-> manifest, spine |-> spine, opf_path |-> opf_path,
      toc_path |-> toc_path, current_path |-> current_path ]

media_type_in(e, path) ==
    LET hits == {id \in DOMAIN e.manifest :
                    PathEq(resolve_path(e.manifest[id].href, e.opf_path), path)}
    IN  IF hits = {} THEN "" ELSE e.manifest[CHOOSE id \in hits : TRUE].media_type

media_type(path) == media_type_in(Engine, path)

\* ------------------------------------------------ Epub::inline_resources
Inlineable(elem) == elem.name \in {"img", "image", "link"} /\ elem.has_attr

\* base64::encode_config_buf with the standard alphabet, and its inverse:
\* the text is identified by the bytes it encodes.
Base64(b) == [b64 |-> b]

Base64Decode(text) == text.b64

\* An element whose attribute is left as it was.
Untouched(elem) ==
    [name |-> elem.name, inlined |-> FALSE, media_type |-> "", payload |-> Base64(0)]

\* The element with the data URI written for it: the media type and the
\* base64 payload of the resource.
DataUri_in(e, elem, resource_path) ==
    [name |-> elem.name, inlined |-> TRUE,
     media_type |-> media_type_in(e, resource_path),
     payload |-> Base64(e.zip[resource_path].bytes)]

DataUri(elem, resource_path) == DataUri_in(Engine, elem, resource_path)

\* The elements an inlining pass anchored at doc_path cannot read.
Dangling_in(e, doc_path, elems) ==
    {i \in 1..Len(elems) :
        /\ Inlineable(elems[i])
        /\ resolve_path(elems[i].value, doc_path) \notin DOMAIN e.zip}

Dangling(doc_path, elems) == Dangling_in(Engine, doc_path, elems)

\* Mutant of PostOrder: the pass does not descend into child elements.
PostOrder_top_level(forest) == forest

\* The elements of a forest in the order in which the recursion visits
\* them: the children of an element, then the element.
RECURSIVE PostOrder(_)
PostOrder(forest) ==
    IF forest = <<>> THEN <<>>
    ELSE PostOrder(Head(forest).kids) \o <<Head(forest)>> \o PostOrder(Tail(forest))

\* The pass over the forest of a document: the first element whose
\* resource cannot be read aborts it, otherwise every element is listed
\* (in visiting order) with the attribute value it ends with.
inline_resources_in(e, doc_path, forest) ==
    LET elems == PostOrder(forest)
    IN  IF Dangling_in(e, doc_path, elems) # {}
        THEN Err("ZipError")
        ELSE Ok([body |-> 0,
                 attrs |-> [i \in 1..Len(elems) |->
                              IF Inlineable(elems[i])
                              THEN DataUri_in(e, elems[i],
                                              resolve_path(elems[i].value, doc_path))
                              ELSE Untouched(elems[i])]])

\* Mutant of inline_resources: an element whose resource cannot be read
\* is left as it is and the pass goes on.
inline_resources_lenient(doc_path, forest) ==
    LET elems == PostOrder(forest)
    IN  Ok([body |-> 0,
            attrs |-> [i \in 1..Len(elems) |->
                         IF Inlineable(elems[i]) /\ i \notin Dangling(doc_path, elems)
                         THEN DataUri(elems[i], resolve_path(elems[i].value, doc_path))
                         ELSE Untouched(elems[i])]])

inline_resources(doc_path, forest) == inline_resources_in(Engine, doc_path, forest)

\* ------------------------------------------------ Epub::current_chapter
\* Reading, parsing, inlining and serialising the entry at target, in the
\* archive of the engine e.
render_in(e, target) ==
    IF target \notin DOMAIN e.zip THEN Err("ZipError")
    ELSE IF e.zip[target].kind # "xml" THEN Err("MinidomError")
    ELSE LET r == inline_resources_in(e, target, e.zip[target].elems)
         IN  IF ~r.ok THEN r
             ELSE Ok([body |-> e.zip[target].bytes, attrs |-> r.html.attrs])

\* Mutant of render: the inlining pass is anchored at the cursor the call
\* started with.
render_anchored_at_previous(target) ==
    IF target \notin DOMAIN zip THEN Err("ZipError")
    ELSE IF zip[target].kind # "xml" THEN Err("MinidomError")
    ELSE LET r == inline_resources(current_path, zip[target].elems)
         IN  IF ~r.ok THEN r
             ELSE Ok([body |-> zip[target].bytes, attrs |-> r.html.attrs])

\* Reading, parsing, inlining and serialising the entry at target, for
\* the engine held.
render(target) ==
    IF target \notin DOMAIN zip THEN Err("ZipError")
    ELSE IF zip[target].kind # "xml" THEN Err("MinidomError")
    ELSE LET r == inline_resources(target, zip[target].elems)
         IN  IF ~r.ok THEN r
             ELSE Ok([body |-> zip[target].bytes, attrs |-> r.html.attrs])

\* The cursor a call leaves and the result it returns.  The cursor is
\* assigned as soon as the href has parsed, before the entry is read.
current_chapter(href, relative_to) ==
    IF ~UrlParses(href)
    THEN [path |-> current_path, res |-> Err("UrlError")]
    ELSE LET target == resolve_path(UrlPath(href), relative_to)
         IN  [path |-> target, res |-> render(target)]

\* --------------------------------------------------------- Epub::chapter
ManifestHref(idref) == Href(manifest[idref].href, "")

\* Mutant of chapter: an index past the end is clamped to the last entry
\* instead of being refused.
chapter_clamped(item_idx) ==
    IF Len(spine) = 0
    THEN [path |-> current_path, res |-> Err(IndexOutOfRange)]
    ELSE LET i == IF item_idx >= Len(spine) THEN Len(spine) - 1 ELSE item_idx
         IN  IF spine[i + 1] \notin DOMAIN manifest
             THEN [path |-> current_path, res |-> Err("idref not in manifest")]
             ELSE current_chapter(ManifestHref(spine[i + 1]), opf_path)

chapter(item_idx) ==
    IF item_idx >= Len(spine)
    THEN [path |-> current_path, res |-> Err(IndexOutOfRange)]
    ELSE IF spine[item_idx + 1] \notin DOMAIN manifest
    THEN [path |-> current_path, res |-> Err("idref not in manifest")]
    ELSE current_chapter(ManifestHref(spine[item_idx + 1]), opf_path)

\* ----------------------------------------------------- Epub::current_idx
\* The first spine position whose item resolves to the cursor, -1 for the
\* "could not find current_path in spine" failure, -2 when the scan meets
\* an idref that is not in the manifest first (the expect panics).
SpineHits ==
    {i \in 0..(Len(spine) - 1) :
        /\ spine[i + 1] \in DOMAIN manifest
        /\ PathEq(resolve_path(manifest[spine[i + 1]].href, opf_path), current_path)}

SpineMisses == {i \in 0..(Len(spine) - 1) : spine[i + 1] \notin DOMAIN manifest}

\* The least element of a set of positions, Len(spine) when it is empty.
FirstOf(S) == IF S = {} THEN Len(spine) ELSE CHOOSE i \in S : \A j \in S : i <= j

\* Mutant of current_idx: a cursor that is on no spine entry counts as
\* being on the first one.
current_idx_or_first ==
    IF FirstOf(SpineMisses) < FirstOf(SpineHits) THEN -2
    ELSE IF SpineHits = {} THEN 0
    ELSE FirstOf(SpineHits)

current_idx ==
    IF FirstOf(SpineMisses) < FirstOf(SpineHits) THEN -2
    ELSE IF SpineHits = {} THEN -1
    ELSE FirstOf(SpineHits)

\* usize::saturating_sub(1); saturating_add(1) cannot saturate on a spine
\* index, which is far below usize::MAX.
SaturatingSub1(n) == IF n = 0 THEN 0 ELSE n - 1

next_chapter ==
    IF current_idx = -2
    THEN [path |-> current_path, res |-> Err(Panic)]
    ELSE IF current_idx = -1
    THEN [path |-> current_path, res |-> Err(CurrentNotInSpine)]
    ELSE chapter(current_idx + 1)

prev_chapter ==
    IF current_idx = -2
    THEN [path |-> current_path, res |-> Err(Panic)]
    ELSE IF current_idx = -1
    THEN [path |-> current_path, res |-> Err(CurrentNotInSpine)]
    ELSE chapter(SaturatingSub1(current_idx))

\* Mutant of chapter_by_link: anchored at the package document.
chapter_by_link_at_opf(link) == current_chapter(link, opf_path)

chapter_by_link(link) == current_chapter(link, current_path)

\* Mutant of chapter_by_toc_link: anchored at the cursor, as chapter_by_link.
chapter_by_toc_link_at_cursor(link) == current_chapter(link, current_path)

chapter_by_toc_link(link) == current_chapter(link, toc_path)

\* ------------------------------------------------------------- Epub::toc
\* The failure toc raises on a child of navMap, "" when it yields an entry.
NavDefect(c) ==
    IF ~c.has_content THEN "no content"
    ELSE IF ~c.has_label THEN "no navLabel"
    ELSE IF ~c.has_text THEN "no text"
    ELSE IF ~c.has_src THEN "no src in content"
    ELSE ""

TocItem(c) == [text |-> Trim(c.text), href |-> c.src]

\* Every child of navMap, whatever its name, must yield an entry: the
\* first one that cannot fails the call.
toc_in(e) ==
    IF e.toc_path \notin DOMAIN e.zip THEN Err("ZipError")
    ELSE IF e.zip[e.toc_path].kind # "xml" THEN Err("MinidomError")
    ELSE LET ncx == ParseNcx(e.zip[e.toc_path].bytes)
             cs  == ncx.children
             bad == {i \in 1..Len(cs) : NavDefect(cs[i]) # ""}
         IN  IF ~ncx.has_navMap THEN Err("no navMap")
             ELSE IF bad # {}
             THEN Err(NavDefect(cs[CHOOSE i \in bad : \A j \in bad : i <= j]))
             ELSE OkToc([i \in 1..Len(cs) |-> TocItem(cs[i])])

toc == toc_in(Engine)

\* ------------------------------------------------------------ the actions
\* Mutant of Call: a table-of-contents link moves toc_path with the cursor.
Call_moving_toc(op, idx, href, r) ==
    /\ loaded
    /\ Len(r.path) <= MaxPathLen
    /\ current_path' = r.path
    /\ toc_path' = IF op = "chapter_by_toc_link" THEN r.path ELSE toc_path
    /\ last' = [op |-> op, idx |-> idx, href |-> href,
                before |-> current_path, res |-> r.res]
    /\ prev' = last
    /\ UNCHANGED <<zip, manifest, spine, opf_path, bytes, loaded, pure, screen>>

Call(op, idx, href, r) ==
    /\ loaded
    /\ Len(r.path) <= MaxPathLen
    /\ current_path' = r.path
    /\ last' = [op |-> op, idx |-> idx, href |-> href,
                before |-> current_path, res |-> r.res]
    /\ prev' = last
    /\ UNCHANGED <<zip, manifest, spine, opf_path, toc_path, bytes, loaded, pure, screen>>

Chapter == \E i \in 0..MaxIdx : Call("chapter", i, NoHref, chapter(i))

ChapterByLink == \E h \in Hrefs : Call("chapter_by_link", 0, h, chapter_by_link(h))

ChapterByTocLink ==
    \E h \in Hrefs : Call("chapter_by_toc_link", 0, h, chapter_by_toc_link(h))

NextChapter == Call("next_chapter", 0, NoHref, next_chapter)

PrevChapter == Call("prev_chapter", 0, NoHref, prev_chapter)

Toc == Call("toc", 0, NoHref, [path |-> current_path, res |-> toc])

DocCount ==
    Call("doc_count", 0, NoHref, [path |-> current_path, res |-> OkCount(doc_count)])

Next ==
    \/ Chapter
    \/ ChapterByLink
    \/ ChapterByTocLink
    \/ NextChapter
    \/ PrevChapter
    \/ Toc
    \/ DocCount

Spec == Init /\ [][Next]_vars

\* ------------------------------------------------------------ the load
\* The archives given to Epub::new: the well-formed book with one part of
\* container.xml or of the package document missing or altered.
SpineVariants ==
    { <<ItemRef("c1"), ItemRef("c2"), ItemRef("c3")>>,
      <<ItemRef("c1"), [ItemRef("c2") EXCEPT !.name = "ref"], ItemRef("c3")>>,
      <<ItemRef("c1"), ItemRef("ghost"), ItemRef("c2")>>,
      <<ItemRef("c1"), [ItemRef("c2") EXCEPT !.has_idref = FALSE]>>,
      <<>> }

LoadInputs ==
    { [BookBytes(BookPlain) EXCEPT !.rootfile = r, !.has_manifest = m,
                                   !.has_spine = sp, !.toc_attr = t]
        : r \in {"ok", "no_attr", "none"}, m \in BOOLEAN, sp \in BOOLEAN,
          t \in {"", "ncx", "nav"} }
    \cup { [BookBytes(BookPlain) EXCEPT !.children = c] : c \in SpineVariants }
    \cup { [BookBytes(BookPlain) EXCEPT !.opf = o]
            : o \in { <<"OEBPS", "package.opf">>, <<"OEBPS", "img", "cover.png">> } }

NotCalled == [NoCall EXCEPT !.op = "none"]

InitLoad ==
    /\ zip = ZipPlain
    /\ manifest = <<>>
    /\ spine = <<>>
    /\ opf_path = <<>>
    /\ toc_path = <<>>
    /\ current_path = <<>>
    /\ last = NotCalled
    /\ prev = NotCalled
    /\ bytes \in LoadInputs
    /\ loaded = FALSE
    /\ pure = NoPure
    /\ screen = NoScreen

\* Epub::new(bytes): the one call that makes the engine.
Open ==
    /\ ~loaded /\ last.op = "none"
    /\ LET r == new(bytes)
       IN  /\ manifest' = r.epub.manifest
           /\ spine' = r.epub.spine
           /\ opf_path' = r.epub.opf_path
           /\ toc_path' = r.epub.toc_path
           /\ current_path' = r.epub.current_path
           /\ loaded' = r.ok
           /\ last' = [NoCall EXCEPT !.res = IF r.ok THEN Ok(NoHtml) ELSE Err(r.err)]
    /\ prev' = last
    /\ UNCHANGED <<zip, bytes, pure, screen>>

NextLoad ==
    \/ Open
    \/ Chapter
    \/ NextChapter
    \/ PrevChapter
    \/ Toc
    \/ DocCount

SpecLoad == InitLoad /\ [][NextLoad]_vars

\* ------------------------------------------------- resolve_path, applied
\* Longest reference and longest anchor resolved.
MaxRefLen == 3

MaxAnchorLen == 3

RefSegs == {"..", ".", "img", "cover.png"}

AnchorSegs == {".", "OEBPS", "text", "chapter1.xhtml"}

SeqsUpTo(S, n) == UNION {[1..k -> S] : k \in 0..n}

InitResolve ==
    /\ zip = <<>>
    /\ manifest = <<>>
    /\ spine = <<>>
    /\ opf_path = <<>>
    /\ toc_path = <<>>
    /\ current_path = <<>>
    /\ last = NotCalled
    /\ prev = NotCalled
    /\ bytes = BookBytes(BookPlain)
    /\ loaded = FALSE
    /\ screen = NoScreen
    /\ \E r \in SeqsUpTo(RefSegs, MaxRefLen), a \in SeqsUpTo(AnchorSegs, MaxAnchorLen) :
          /\ a # <<>>
          /\ pure = [ref |-> r, anchor |-> a, out |-> <<>>, done |-> FALSE]

Resolve ==
    /\ ~pure.done
    /\ pure' = [pure EXCEPT !.out = resolve_path(pure.ref, pure.anchor), !.done = TRUE]
    /\ UNCHANGED <<zip, manifest, spine, opf_path, toc_path, current_path,
                   last, prev, bytes, loaded, screen>>

NextResolve == Resolve

SpecResolve == InitResolve /\ [][NextResolve]_vars

\* ------------------------------------------------------- the page (web.rs)
\* The archives given to the page: a well-formed book, the damaged book
\* (its NCX has a navLabel child, its second chapter an unreadable image),
\* the book whose NCX has a navPoint without src, and an archive whose
\* spine names no table of contents.
BookNoToc == [BookPlain EXCEPT !.toc = ""]

UiBooks == {BookPlain, BookBroken, BookClimb, BookNoToc}

\* Epub::new on the archive of a book, whose container, manifest and spine
\* are well formed: only the toc attribute can fail it.
new_book(book) ==
    IF book.toc = "" THEN NotLoaded("toc missing in spine")
    ELSE IF book.toc \notin DOMAIN book.manifest
    THEN NotLoaded("toc in spine not defined in manifest")
    ELSE Loaded(EpubNew(book))

\* epub.chapter(0) on the engine e just returned by Epub::new: the cursor
\* it leaves and its result, read in the archive the engine holds.
first_chapter(e) ==
    IF Len(e.spine) = 0
    THEN [path |-> e.current_path, res |-> Err(IndexOutOfRange)]
    ELSE IF e.spine[1] \notin DOMAIN e.manifest
    THEN [path |-> e.current_path, res |-> Err("idref not in manifest")]
    ELSE LET href == Href(e.manifest[e.spine[1]].href, "")
         IN  IF ~UrlParses(href)
             THEN [path |-> e.current_path, res |-> Err("UrlError")]
             ELSE [path |-> resolve_path(UrlPath(href), e.opf_path),
                   res  |-> render_in(e, resolve_path(UrlPath(href), e.opf_path))]

\* An absolute URL: Url::parse accepts it, the link opens in a new tab.
ExternalHref == Href(<<"https:", "", "example.org">>, "")

IsExternal(href) == href.segs # <<>> /\ href.segs[1] = "https:"

\* The hrefs of the anchors clicked in the content and in the list.
UiHrefs ==
    { Href(<<"ch2.html">>, ""),
      Href(<<"text", "ch2.html">>, "s1"),
      Href(<<"missing.html">>, ""),
      Href(<<>>, "top"),
      ExternalHref }

InitUi ==
    /\ zip = <<>>
    /\ manifest = <<>>
    /\ spine = <<>>
    /\ opf_path = <<>>
    /\ toc_path = <<>>
    /\ current_path = <<>>
    /\ last = NotCalled
    /\ prev = NotCalled
    /\ bytes = BookBytes(BookPlain)
    /\ loaded = FALSE
    /\ pure = NoPure
    /\ screen = NoScreen

\* A handler that returns without reaching the engine or the page.
Untouching(op, href, res) ==
    /\ last' = [op |-> op, idx |-> 0, href |-> href, before |-> current_path, res |-> res]
    /\ UNCHANGED <<zip, manifest, spine, opf_path, toc_path, current_path,
                   prev, bytes, loaded, pure, screen>>

\* A handler that calls a chapter operation of the engine, r its outcome,
\* and calls render_content only with a returned chapter.
Handled(op, href, r) ==
    /\ Len(r.path) <= MaxPathLen
    /\ current_path' = r.path
    /\ screen' = IF r.res.ok THEN [screen EXCEPT !.content = r.res.html] ELSE screen
    /\ last' = [op |-> op, idx |-> 0, href |-> href, before |-> current_path, res |-> r.res]
    /\ UNCHANGED <<zip, manifest, spine, opf_path, toc_path, prev, bytes, loaded, pure>>

\* load_from_buffer, for a chosen file and for the sample: the engine is
\* stored as soon as Epub::new returns it, then the first chapter is
\* read, then the table of contents, and only then the page is written.
LoadFromBuffer ==
    \E book \in UiBooks :
        LET r == new_book(book)
        IN  IF ~r.ok
            THEN Untouching("load", NoHref, Err(r.err))
            ELSE /\ zip' = r.epub.zip
                 /\ manifest' = r.epub.manifest
                 /\ spine' = r.epub.spine
                 /\ opf_path' = r.epub.opf_path
                 /\ toc_path' = r.epub.toc_path
                 /\ loaded' = TRUE
                 /\ current_path' = first_chapter(r.epub).path
                 /\ LET c == first_chapter(r.epub).res
                        t == toc_in(r.epub)
                    IN  /\ screen' = IF c.ok /\ t.ok
                                     THEN [content |-> c.html, toc |-> t.toc]
                                     ELSE screen
                        /\ last' = [op |-> "load", idx |-> 0, href |-> NoHref,
                                    before |-> current_path,
                                    res |-> IF ~c.ok THEN c
                                            ELSE IF ~t.ok THEN t ELSE c]
                 /\ UNCHANGED <<prev, bytes, pure>>

\* handle_arrows: the prev and next buttons.
ArrowPrev ==
    IF ~loaded THEN Untouching("prev", NoHref, Err("no epub loaded yet"))
    ELSE Handled("prev", NoHref, prev_chapter)

ArrowNext ==
    IF ~loaded THEN Untouching("next", NoHref, Err("no epub loaded yet"))
    ELSE Handled("next", NoHref, next_chapter)

\* handle_click(false): a click on an anchor of the chapter shown.
ContentClick ==
    \E href \in UiHrefs :
        IF IsExternal(href) THEN Untouching("click", href, Ok(NoHtml))
        ELSE IF ~loaded THEN Untouching("click", href, Err("no epub loaded yet"))
        ELSE Handled("click", href, chapter_by_link(href))

\* handle_click(true): a click on an anchor of the list.
TocClick ==
    \E href \in UiHrefs :
        IF IsExternal(href) THEN Untouching("toc_click", href, Ok(NoHtml))
        ELSE IF ~loaded THEN Untouching("toc_click", href, Err("no epub loaded yet"))
        ELSE Handled("toc_click", href, chapter_by_toc_link(href))

NextUi ==
    \/ LoadFromBuffer
    \/ ArrowPrev
    \/ ArrowNext
    \/ ContentClick
    \/ TocClick

SpecUi == InitUi /\ [][NextUi]_vars

\* ================================================================ claims
NavOps == {"chapter", "chapter_by_link", "chapter_by_toc_link",
           "next_chapter", "prev_chapter"}

\* The resolved path of the spine entry at index i, as current_idx and
\* media_type compute it.
SpinePath(i) == resolve_path(manifest[spine[i + 1]].href, opf_path)

\* C1: a navigation call that fails, for whatever reason, leaves
\* current_path as it was before the call.
C1_FailedCallKeepsCursor ==
    (last.op \in NavOps /\ ~last.res.ok) => current_path = last.before

\* C2: a successful chapter(i) leaves current_path at the Path Resolver's
\* result for the raw href of manifest item Spine[i] anchored at opf_path.
C2_ChapterCursorIsResolvedHref ==
    (last.op = "chapter" /\ last.res.ok) => current_path = SpinePath(last.idx)

\* C3: after a successful chapter(n) with n <= doc_count - 2, next_chapter
\* returns the content and leaves the cursor of a direct chapter(n + 1).
C3_NextIsChapterPlusOne ==
    ( /\ last.op = "next_chapter"
      /\ prev.op = "chapter" /\ prev.res.ok
      /\ prev.idx + 2 <= doc_count )
    => /\ last.res = chapter(prev.idx + 1).res
       /\ current_path = chapter(prev.idx + 1).path

\* C4: after a successful chapter(n), prev_chapter returns the content and
\* leaves the cursor of chapter(max(n - 1, 0)).
C4_PrevIsChapterMinusOne ==
    ( /\ last.op = "prev_chapter"
      /\ prev.op = "chapter" /\ prev.res.ok )
    => LET m == IF prev.idx = 0 THEN 0 ELSE prev.idx - 1
       IN  /\ last.res = chapter(m).res
           /\ current_path = chapter(m).path

\* The call in last is the first one made on the engine Epub::new returned.
FirstCall == prev.op = "new"

InSpine(p) == \E i \in 0..(doc_count - 1) : PathEq(SpinePath(i), p)

OnLastEntry(p) == doc_count > 0 /\ PathEq(p, SpinePath(doc_count - 1))

\* C6: with the cursor on the last spine entry next_chapter fails with
\* IndexOutOfRange and leaves current_path there, and a following
\* prev_chapter succeeds.
C6_NextAtEndFails ==
    /\ (last.op = "next_chapter" /\ OnLastEntry(last.before))
       => (last.res = Err(IndexOutOfRange) /\ current_path = last.before)
    /\ ( /\ prev.op = "next_chapter" /\ OnLastEntry(prev.before)
         /\ last.op = "prev_chapter" )
       => last.res.ok

\* C7: chapter(index) with index >= doc_count fails with IndexOutOfRange,
\* returns no content and changes no field of the engine.
C7_ChapterOutOfRange ==
    [][ (last'.op = "chapter" /\ last'.idx >= Len(spine))
        => /\ last'.res = Err(IndexOutOfRange)
           /\ last'.res.html = NoHtml
           /\ UNCHANGED <<zip, manifest, spine, opf_path, toc_path, current_path>>
      ]_vars

C7_Witness ==
    /\ last.op = "chapter" /\ last.idx >= doc_count
    /\ last.res = Err(IndexOutOfRange)
    /\ prev.res.ok /\ prev.op = "chapter_by_link"
    /\ current_path = last.before /\ current_path # opf_path

\* C8: with current_path on no spine entry, next_chapter and prev_chapter
\* fail with CurrentNotInSpine and leave current_path alone, and a later
\* chapter(i) with a valid i brings the cursor back into the spine.
C8_OutsideSpine ==
    /\ (last.op \in {"next_chapter", "prev_chapter"} /\ ~InSpine(last.before))
       => (last.res = Err(CurrentNotInSpine) /\ current_path = last.before)
    /\ ( /\ last.op = "chapter" /\ last.idx < doc_count /\ last.res.ok
         /\ ~InSpine(last.before) )
       => InSpine(current_path)

\* C9: chapter_by_link(href) opens the entry found by resolving href's
\* path, without its fragment, filesystem-style against the directory of
\* the current document, each leading ".." climbing one directory.
C9_LinkIsFilesystemRelative ==
    (last.op = "chapter_by_link" /\ UrlParses(last.href))
    => last.res = render(resolve_path(last.href.segs, last.before))

\* What chapter_by_toc_link(href) does on the engine as Epub::new returned
\* it, whose current_path is opf_path.
TocLinkOnNewEngine(href) ==
    LET r == chapter_by_toc_link(href)
    IN  IF UrlParses(href) THEN r ELSE [r EXCEPT !.path = opf_path]

\* C10 as stated: whatever current_path was, chapter_by_toc_link(href)
\* returns the content and leaves the current_path that the same call
\* leaves on another engine of the same archive (here the engine as it was
\* returned by open).
C10_TocLinkSameOnAnyCursor ==
    (last.op = "chapter_by_toc_link")
    => /\ last.res = TocLinkOnNewEngine(last.href).res
       /\ current_path = TocLinkOnNewEngine(last.href).path

\* C10 as amended: for an href that parses, the content returned and the
\* current_path left are those of href resolved against toc_path, whatever
\* current_path was; an href that does not parse fails and leaves each
\* engine at its own current_path.
C10_TocLinkAnchoredAtToc ==
    (last.op = "chapter_by_toc_link")
    => IF UrlParses(last.href)
       THEN /\ current_path = resolve_path(UrlPath(last.href), toc_path)
            /\ last.res = render(resolve_path(UrlPath(last.href), toc_path))
            /\ last.res = chapter_by_toc_link(last.href).res
       ELSE /\ ~last.res.ok
            /\ current_path = last.before

C10_Witness ==
    /\ last.op = "chapter_by_toc_link" /\ last.res.ok
    /\ last.href.segs = <<"text", "ch2.html">>
    /\ ~FirstCall
    /\ Pop(last.before) # Pop(toc_path)
    /\ current_path # last.before

\* C11 as stated: on an engine returned by open every spine entry is a
\* key of the manifest, so chapter(i) with i < doc_count never fails for an
\* idref missing from the manifest and the scan of next_chapter and
\* prev_chapter never meets one.
C11_SpineResolvesInManifest ==
    loaded
    => /\ \A i \in 1..Len(spine) : spine[i] \in DOMAIN manifest
       /\ (last.op = "chapter" /\ last.idx < doc_count)
            => last.res.err # "idref not in manifest"
       /\ (last.op \in {"next_chapter", "prev_chapter"}) => last.res.err # Panic

\* The itemref children of the spine element of the archive given to open.
ItemrefCount ==
    Cardinality({i \in 1..Len(bytes.children) : bytes.children[i].name = "itemref"})

\* C12: every doc_count() call returns the number of itemref children of
\* the spine element of the loaded package document, whatever calls came
\* before it, and changes no variable of the engine.
C12_DocCountIsItemrefCount ==
    [][(last'.op = "doc_count")
        => /\ last'.res = OkCount(ItemrefCount)
           /\ UNCHANGED <<zip, manifest, spine, opf_path, toc_path, current_path>>]_vars

C12_Witness ==
    /\ last.op = "doc_count" /\ last.res.count = 2
    /\ prev.op = "chapter" /\ prev.res.ok
    /\ Len(bytes.children) = 3

\* The parts open requires, one of them missing from the archive.
Defective(b) ==
    \/ b.rootfile = "none"
    \/ b.rootfile = "no_attr"
    \/ ~b.has_manifest
    \/ ~b.has_spine
    \/ b.toc_attr = ""
    \/ \A i \in 1..Len(b.items) : b.items[i].id # b.toc_attr

\* C14: once open has been called, an archive with no rootfile element, no
\* full-path attribute, no manifest, no spine, no toc attribute on the
\* spine, or a toc attribute naming no manifest item has given an error and
\* no engine; an engine exists only for an archive with all of them.
C14_OpenFailsOnMissingPart ==
    (last.op # "none" /\ Defective(bytes))
    => /\ ~loaded
       /\ (last.op = "new") => (~last.res.ok /\ last.res.err # Panic)

C14_Witness ==
    /\ last.op = "new" /\ ~loaded
    /\ bytes.rootfile = "ok" /\ bytes.has_manifest /\ bytes.has_spine
    /\ bytes.toc_attr = "nav"
    /\ last.res.err = "toc in spine not defined in manifest"

\* The navPoint children of navMap in the NCX document at toc_path.
NavPointsOf(ncx) == SelectSeq(ncx.children, LAMBDA c : c.name = "navPoint")

\* C13 as stated: toc() on an NCX document whose navMap has complete
\* navPoint children returns one {text, href} item per navPoint child, in
\* document order, whatever other children navMap has, none for a nested
\* navPoint, and leaves current_path as it was.
C13_TocListsNavPointChildren ==
    (/\ last.op = "toc"
     /\ toc_path \in DOMAIN zip
     /\ zip[toc_path].kind = "xml"
     /\ ParseNcx(zip[toc_path].bytes).has_navMap
     /\ \A i \in 1..Len(NavPointsOf(ParseNcx(zip[toc_path].bytes))) :
            NavDefect(NavPointsOf(ParseNcx(zip[toc_path].bytes))[i]) = "")
    => LET points == NavPointsOf(ParseNcx(zip[toc_path].bytes))
       IN  /\ last.res = OkToc([i \in 1..Len(points) |-> TocItem(points[i])])
           /\ current_path = last.before

\* The img elements with a src, at any depth of a forest: how many there
\* are and the references they hold.
RECURSIVE ImgTotal(_)
ImgTotal(forest) ==
    IF forest = <<>> THEN 0
    ELSE (IF Head(forest).name = "img" /\ Head(forest).has_attr THEN 1 ELSE 0)
         + ImgTotal(Head(forest).kids) + ImgTotal(Tail(forest))

RECURSIVE RefsOf(_, _)
RefsOf(forest, names) ==
    IF forest = <<>> THEN {}
    ELSE (IF Head(forest).name \in names /\ Head(forest).has_attr
          THEN {Head(forest).value} ELSE {})
         \cup RefsOf(Head(forest).kids, names) \cup RefsOf(Tail(forest), names)

\* The written attribute is the data URI of the entry src resolves to.
IsDataUriOf(written, src) ==
    /\ resolve_path(src, current_path) \in DOMAIN zip
    /\ written.media_type = media_type(resolve_path(src, current_path))
    /\ Base64Decode(written.payload) = zip[resolve_path(src, current_path)].bytes

\* C15: in the HTML a chapter operation returns, every img element with a
\* src, at any depth, carries a data URI whose payload decodes to the
\* bytes of the entry its src resolves to against the rendered document.
C15_EveryImgInlined ==
    (last.op \in NavOps /\ last.res.ok)
    => LET forest  == zip[current_path].elems
           out     == last.res.html.attrs
           written == {i \in 1..Len(out) : out[i].name = "img" /\ out[i].inlined}
       IN  /\ Cardinality(written) = ImgTotal(forest)
           /\ \A src \in RefsOf(forest, {"img"}) :
                 \E i \in written : IsDataUriOf(out[i], src)
           /\ \A i \in written :
                 \E src \in RefsOf(forest, {"img"}) : IsDataUriOf(out[i], src)

C15_Witness ==
    /\ last.op \in NavOps /\ last.res.ok
    /\ ImgTotal(zip[current_path].elems) = 1
    /\ \A i \in 1..Len(zip[current_path].elems) :
          ~(zip[current_path].elems[i].name = "img" /\ zip[current_path].elems[i].has_attr)
    /\ \E i \in 1..Len(last.res.html.attrs) :
          /\ last.res.html.attrs[i].name = "img"
          /\ last.res.html.attrs[i].media_type = "image/png"
          /\ Base64Decode(last.res.html.attrs[i].payload) = 10

\* C18 as stated: current_path is the package document's path or the path
\* of an entry of the archive, and holds no "." or ".." segment.
C18_CursorIsEntry ==
    \/ current_path = opf_path
    \/ /\ current_path \in DOMAIN zip
       /\ \A i \in 1..Len(current_path) : current_path[i] \notin {".", ".."}

\* C19: no operation of the engine changes manifest, spine, opf_path or
\* toc_path.
C19_LoadedFieldsFixed ==
    [][UNCHANGED <<manifest, spine, opf_path, toc_path>>]_vars

C19_Witness ==
    /\ last.op = "toc"
    /\ prev.op = "chapter_by_toc_link" /\ prev.res.ok
    /\ current_path # opf_path
    /\ toc_path = resolve_path(manifest[bytes.toc_attr].href, opf_path)

\* The references of the document at the cursor that name no entry.
UnreadableRefs ==
    {ref \in RefsOf(zip[current_path].elems, {"img", "image", "link"}) :
        resolve_path(ref, current_path) \notin DOMAIN zip}

\* C20: a chapter operation whose document holds an img, image or link
\* reference, at any depth, that resolves to no entry fails and returns no
\* HTML.
C20_UnreadableResourceFailsChapter ==
    (/\ last.op \in NavOps
     /\ current_path \in DOMAIN zip
     /\ zip[current_path].kind = "xml"
     /\ UnreadableRefs # {})
    => /\ ~last.res.ok
       /\ last.res.html = NoHtml

C20_Witness ==
    /\ last.op = "chapter" /\ current_path # last.before
    /\ last.res = Err("ZipError")
    /\ UnreadableRefs # {}
    /\ UnreadableRefs # RefsOf(zip[current_path].elems, {"img", "image", "link"})
    /\ \A i \in 1..Len(zip[current_path].elems) :
          zip[current_path].elems[i].value \notin UnreadableRefs

\* C16 as stated: an empty reference resolves to the directory of the
\* anchor, the anchor without its last segment.
C16_EmptyRefIsAnchorDir ==
    (pure.done /\ pure.ref = <<>>) => pure.out = Pop(pure.anchor)

\* C16 as amended: an empty reference resolves to the anchor itself, last
\* segment included.
C16_EmptyRefIsAnchor ==
    (pure.done /\ pure.ref = <<>>) => pure.out = pure.anchor

C16_Witness ==
    /\ pure.done /\ pure.ref = <<>>
    /\ pure.anchor = <<"OEBPS", "text", "chapter1.xhtml">>
    /\ pure.out = <<"OEBPS", "text", "chapter1.xhtml">>

\* The walk as C17 states it: ".." removes the last segment, every other
\* segment, "." included, is appended.
RECURSIVE VerbatimWalk(_, _)
VerbatimWalk(dir, ref) ==
    IF ref = <<>> THEN dir
    ELSE VerbatimWalk(IF Head(ref) = ".."
                      THEN (IF dir = <<>> THEN dir ELSE Front(dir))
                      ELSE Append(dir, Head(ref)),
                      Tail(ref))

\* C17 as stated: a non-empty reference resolves to the anchor without its
\* last segment, transformed by the segments of the reference in order:
\* ".." removes the last directory component, every other segment, "."
\* included, is appended verbatim.
C17_EverySegmentWalked ==
    (pure.done /\ pure.ref # <<>>)
    => pure.out = VerbatimWalk(Front(pure.anchor), pure.ref)

\* The walk as amended, by position in the reference: a "." is appended
\* only in first position and skipped elsewhere; ".." removes the last
\* component with the "." segments that end the path, nothing when no
\* component is left.
RECURSIVE WalkFrom(_, _, _)
WalkFrom(dir, ref, i) ==
    IF i > Len(ref) THEN dir
    ELSE WalkFrom(IF ref[i] = "." /\ i > 1 THEN dir
                  ELSE IF ref[i] = ".." THEN Pop(dir)
                  ELSE Append(dir, ref[i]),
                  ref, i + 1)

\* C17 as amended: a non-empty reference resolves to the directory of the
\* anchor transformed by the segments of the reference in order, where a
\* "." that is not the first segment of the reference is skipped.
C17_DotsAfterFirstSkipped ==
    (pure.done /\ pure.ref # <<>>)
    => pure.out = WalkFrom(Pop(pure.anchor), pure.ref, 1)

C17_Witness ==
    /\ pure.done
    /\ pure.ref = <<"img", ".", "cover.png">>
    /\ pure.anchor = <<"OEBPS", "text", "chapter1.xhtml">>
    /\ pure.out = <<"OEBPS", "text", "img", "cover.png">>

\* The failures a chapter operation raises before it assigns the cursor
\* and reads the document.
PreRenderErrors ==
    {IndexOutOfRange, CurrentNotInSpine, "UrlError", "idref not in manifest", Panic}

\* C21: a chapter operation that reaches a document whose img, image and
\* link references all name entries when resolved against that document
\* succeeds, and every attribute it rewrites is the data URI of the entry
\* the reference resolves to against the document rendered (the cursor
\* the call leaves), whatever the cursor was before the call.
C21_ResourcesAnchoredAtTarget ==
    (/\ last.op \in NavOps
     /\ last.res.err \notin PreRenderErrors
     /\ current_path \in DOMAIN zip
     /\ zip[current_path].kind = "xml"
     /\ UnreadableRefs = {})
    => LET out == last.res.html.attrs
       IN  /\ last.res.ok
           /\ \A i \in 1..Len(out) :
                 out[i].inlined
                 => \E ref \in RefsOf(zip[current_path].elems, {out[i].name}) :
                       IsDataUriOf(out[i], ref)
           /\ \A ref \in RefsOf(zip[current_path].elems, {"img", "image", "link"}) :
                 \E i \in 1..Len(out) : out[i].inlined /\ IsDataUriOf(out[i], ref)

C21_Witness ==
    /\ last.op \in NavOps /\ last.res.ok
    /\ ~FirstCall
    /\ current_path # last.before
    /\ \E ref \in RefsOf(zip[current_path].elems, {"img", "image", "link"}) :
          /\ resolve_path(ref, last.before) \notin DOMAIN zip
          /\ resolve_path(ref, current_path) \in DOMAIN zip

\* An href that is only a fragment: no path, "#id".
FragmentOnly(href) == href.segs = <<>> /\ href.frag # ""

\* C22: chapter_by_link with a fragment-only href leaves current_path as
\* it was and returns what the operation that opened the current document
\* returned, a repeated fragment-only link included.
C22_FragmentLinkRerenders ==
    (last.op = "chapter_by_link" /\ FragmentOnly(last.href))
    => /\ current_path = last.before
       /\ (prev.op \in NavOps /\ prev.res.err \notin PreRenderErrors)
            => last.res = prev.res

C22_Witness ==
    /\ last.op = "chapter_by_link" /\ FragmentOnly(last.href) /\ last.res.ok
    /\ prev.op = "chapter_by_link" /\ FragmentOnly(prev.href) /\ prev.res.ok
    /\ current_path # opf_path
    /\ InSpine(current_path)

\* The page shows the chapter at the cursor of the engine held, or the
\* welcome text while no engine is held.
ScreenShowsCursor ==
    IF loaded
    THEN render(current_path).ok /\ screen.content = render(current_path).html
    ELSE screen = NoScreen

\* C23 as stated: after every handled event the page shows the rendering
\* of the document at current_path in the book the engine holds, and an
\* event that fails leaves the page, the book and the cursor as they were.
C23_ScreenFollowsEngine ==
    [][/\ ScreenShowsCursor'
       /\ ~last'.res.ok
            => UNCHANGED <<screen, zip, manifest, spine, opf_path, toc_path,
                           current_path, loaded>>]_vars

====
